---- MODULE Spec2Model ----
(***************************************************************************)
(* Model of sqlalchemy_query_helpers.main.DB: row normalisation            *)
(* (__to_dict, clean_values, __check_modelkeys) and the insert /           *)
(* insert-ignore / update / upsert helpers built on an ORM session.        *)
(*                                                                         *)
(* The session and the storage engine are the collaborators of DB.  They   *)
(* are modelled by their documented contract (SQLAlchemy 2.x, MySQL):      *)
(*   - session.add() leaves a record pending; a flush sends the pending    *)
(*     INSERTs and raises IntegrityError on a primary-key / unique clash;  *)
(*   - a failed flush rolls back the innermost nested scope, or the whole  *)
(*     transaction when there is none, and then the session refuses work   *)
(*     (PendingRollbackError) until session.rollback() is called;          *)
(*   - begin_nested() flushes, then sets a savepoint; leaving the scope    *)
(*     flushes and releases it, or rolls back to it on an exception;       *)
(*   - commit() flushes and commits to the root; rollback() discards the   *)
(*     transaction and expunges what was added in it.                      *)
(***************************************************************************)
EXTENDS Integers, Sequences, FiniteSets, TLC

VARIABLES db, work, pending, active, last

vars == <<db, work, pending, active, last>>

(***************************************************************************)
(* Bounds                                                                  *)
(***************************************************************************)
MaxId == 2

MaxRows == 2

MaxPending == 1

MaxSqls == 3

(***************************************************************************)
(* Values.  A value is [str, v]: str tells whether Python sees a str, v is *)
(* the sequence of its characters (a non-string scalar is one symbol, None *)
(* is the empty non-string).  Character 0 is white space.                  *)
(***************************************************************************)
SP == 0

None == [str |-> FALSE, v |-> <<>>]

N(n) == [str |-> FALSE, v |-> <<n>>]

S(cs) == [str |-> TRUE, v |-> cs]

RECURSIVE LStrip(_)
LStrip(cs) == IF cs # <<>> /\ Head(cs) = SP THEN LStrip(Tail(cs)) ELSE cs

RECURSIVE RStrip(_)
RStrip(cs) ==
    IF cs # <<>> /\ cs[Len(cs)] = SP THEN RStrip(SubSeq(cs, 1, Len(cs) - 1)) ELSE cs

strip(cs) == RStrip(LStrip(cs))

\* v.strip() or None if isinstance(v, str) else v
clean_value(val) ==
    IF val.str
    THEN IF strip(val.v) = <<>> THEN None ELSE S(strip(val.v))
    ELSE val

clean_values(d) == [k \in DOMAIN d |-> clean_value(d[k])]

(***************************************************************************)
(* Table models.  A field descriptor has an object-model key and a         *)
(* storage-column name, and the unique / primary_key flags of its column.  *)
(***************************************************************************)
Fld(k, n, u, p) == [key |-> k, name |-> n, unique |-> u, pk |-> p]

F_id == Fld("id", "id_col", FALSE, TRUE)

F_val == Fld("val", "val_col", FALSE, FALSE)

G_id == Fld("gid", "gid", FALSE, TRUE)

G_code == Fld("code", "code", TRUE, FALSE)

T1 == [name |-> "t1", cols |-> <<F_id, F_val>>]

T2 == [name |-> "t2", cols |-> <<G_id, G_code>>]

Range(s) == {s[i] : i \in DOMAIN s}

ColKeys(t) == {c.key : c \in Range(t.cols)}

ColNames(t) == {c.name : c \in Range(t.cols)}

(***************************************************************************)
(* Rows.  A row is a dict (a function from keys to values; a key is a      *)
(* field descriptor, attr = TRUE, or a plain string, attr = FALSE), a      *)
(* list/tuple of values, a str, or something else.                         *)
(***************************************************************************)
AttrKey(f) == [attr |-> TRUE, key |-> f.key, name |-> f.name]

StrKey(s) == [attr |-> FALSE, key |-> s, name |-> s]

DictRow(d) == [kind |-> "dict", d |-> d, s |-> <<>>]

ListRow(s) == [kind |-> "list", d |-> <<>>, s |-> s]

StrRow(cs) == [kind |-> "str", d |-> <<>>, s |-> cs]

OtherRow == [kind |-> "other", d |-> <<>>, s |-> <<>>]

Ok(d) == [err |-> "", d |-> d]

Err(e) == [err |-> e, d |-> <<>>]

\* {f(k): row[k] for k in row}
Rekey(d, f(_)) ==
    [s \in {f(k) : k \in DOMAIN d} |-> d[CHOOSE k \in DOMAIN d : f(k) = s]]

KeyOf(k) == k.key

NameOf(k) == k.name

\* dict(zip(fields, row)): a repeated field keeps its last value
Zip(fields, row) ==
    [s \in Range(fields) |->
        row[CHOOSE i \in DOMAIN fields :
                /\ fields[i] = s
                /\ i <= Len(row)
                /\ \A j \in DOMAIN fields : fields[j] = s /\ j <= Len(row) => j <= i]]

\* __to_dict without the length assertions: zip() stops at the shorter side
to_dict_zip(row, mfields, use_mfield_keys, use_orm_keys) ==
    IF row.kind = "dict"
    THEN IF \E k \in DOMAIN row.d : k.attr
         THEN IF \E k \in DOMAIN row.d : ~k.attr
              THEN Err("AttributeError")
              ELSE Ok(clean_values(IF use_orm_keys THEN Rekey(row.d, KeyOf)
                                                   ELSE Rekey(row.d, NameOf)))
         ELSE Ok(clean_values(Rekey(row.d, KeyOf)))
    ELSE IF mfields # <<>>
    THEN IF row.kind \notin {"list", "str"}
         THEN Err("AssertionError")
         ELSE LET vals == IF row.kind = "list" THEN row.s ELSE <<S(row.s)>>
                  n    == IF Len(vals) < Len(mfields) THEN Len(vals) ELSE Len(mfields)
                  fields == IF use_mfield_keys
                            THEN [i \in 1..n |-> mfields[i].key]
                            ELSE [i \in 1..n |-> mfields[i].name]
              IN  Ok(clean_values(Zip(fields, vals)))
    ELSE Err("RuntimeError")

\* DB.__to_dict(row, mfields, use_mfield_keys, use_orm_keys); mfields = <<>>
\* stands for both None and an empty list (both are falsy)
to_dict(row, mfields, use_mfield_keys, use_orm_keys) ==
    IF row.kind = "dict"
    THEN IF \E k \in DOMAIN row.d : k.attr
         THEN IF \E k \in DOMAIN row.d : ~k.attr
              THEN Err("AttributeError")
              ELSE Ok(clean_values(IF use_orm_keys THEN Rekey(row.d, KeyOf)
                                                   ELSE Rekey(row.d, NameOf)))
         ELSE Ok(clean_values(Rekey(row.d, KeyOf)))
    ELSE IF mfields # <<>>
    THEN IF row.kind \notin {"list", "str"}
         THEN Err("AssertionError")
         ELSE LET fields == IF use_mfield_keys
                            THEN [i \in DOMAIN mfields |-> mfields[i].key]
                            ELSE [i \in DOMAIN mfields |-> mfields[i].name]
              IN  IF row.kind = "list"
                  THEN IF Len(mfields) # Len(row.s)
                       THEN Err("AssertionError")
                       ELSE Ok(clean_values(Zip(fields, row.s)))
                  ELSE IF Len(mfields) # 1
                       THEN Err("AssertionError")
                       ELSE Ok(clean_values(Zip(fields, <<S(row.s)>>)))
    ELSE Err("RuntimeError")

\* DB.__check_modelkeys(row, cause_dict) -> (cause_dict, to_insert_dict)
check_modelkeys(row, cause) ==
    LET model_keys == {cause[i].key : i \in DOMAIN cause}
    IN  [cause |-> [k \in DOMAIN row \cap model_keys |-> row[k]],
         rest  |-> [k \in DOMAIN row \ model_keys |-> row[k]]]

(***************************************************************************)
(* Storage and session.  db[n] holds the committed records of table n,     *)
(* work[n] what the session's open transaction sees (db plus its own       *)
(* uncommitted writes), pending the records added but not yet flushed,     *)
(* active whether the session accepts work.  A record maps the object-     *)
(* model keys of its table to values.                                      *)
(***************************************************************************)
Tables == {T1, T2}

TableNames == {t.name : t \in Tables}

TableOf(n) == CHOOSE t \in Tables : t.name = n

Keyed(t) == {c.key : c \in {x \in Range(t.cols) : x.pk \/ x.unique}}

PkKeys(t) == {c.key : c \in {x \in Range(t.cols) : x.pk}}

Clash(t, a, b) == \E k \in Keyed(t) : a[k] # None /\ a[k] = b[k]

\* the storage accepts the INSERT of rec into a table holding recs
InsertOk(t, rec, recs) ==
    /\ \A k \in PkKeys(t) : rec[k] # None
    /\ \A r \in recs : ~Clash(t, rec, r)

Sess(d, w, p, a) == [db |-> d, work |-> w, pending |-> p, active |-> a]

Out(s, e, r) == [s |-> s, err |-> e, res |-> r]

\* the INSERTs of a flush, in the order the records were added
RECURSIVE FlushAll(_, _)
FlushAll(w, p) ==
    IF p = <<>>
    THEN [ok |-> TRUE, work |-> w]
    ELSE LET e == Head(p)
         IN  IF InsertOk(TableOf(e.tn), e.rec, w[e.tn])
             THEN FlushAll([w EXCEPT ![e.tn] = @ \cup {e.rec}], Tail(p))
             ELSE [ok |-> FALSE, work |-> w]

\* what a failed flush outside any nested scope leaves behind
RolledBack(s) == Sess(s.db, s.db, <<>>, FALSE)

\* session.flush() outside a nested scope
RootFlush(s) ==
    IF ~s.active
    THEN Out(s, "PendingRollbackError", None)
    ELSE LET f == FlushAll(s.work, s.pending)
         IN  IF f.ok
             THEN Out(Sess(s.db, f.work, <<>>, TRUE), "", None)
             ELSE Out(RolledBack(s), "IntegrityError", None)

\* session.commit(); commitOk is whether the storage accepts the COMMIT
SessionCommit(s, commitOk) ==
    LET f == RootFlush(s)
    IN  IF f.err # ""
        THEN f
        ELSE IF commitOk
             THEN Out(Sess(f.s.work, f.s.work, <<>>, TRUE), "", None)
             ELSE Out(RolledBack(s), "OperationalError", None)

\* session.rollback(), called by the owner of the session
SessionRollback(s) == Sess(s.db, s.db, <<>>, TRUE)

\* m = t(**row): the declarative constructor accepts attribute keys only
Construct(t, d) ==
    IF DOMAIN d \subseteq ColKeys(t)
    THEN Ok([k \in ColKeys(t) |-> IF k \in DOMAIN d THEN d[k] ELSE None])
    ELSE Err("TypeError")

Staged(t, rec) == [tn |-> t.name, rec |-> rec]

(***************************************************************************)
(* DB.insert_many / DB.insert                                              *)
(***************************************************************************)
RECURSIVE insert_many_loop(_, _, _, _)
insert_many_loop(t, rows, mfields, s) ==
    IF rows = <<>>
    THEN Out(s, "", None)
    ELSE LET row == to_dict(Head(rows), mfields, TRUE, TRUE)
             m   == Construct(t, row.d)
         IN  IF row.err # "" THEN Out(s, row.err, None)
             ELSE IF m.err # "" THEN Out(s, m.err, None)
             ELSE insert_many_loop(t, Tail(rows), mfields,
                      [s EXCEPT !.pending = Append(@, Staged(t, m.d))])

\* insert_many with the commit inside the loop
RECURSIVE insert_many_eager(_, _, _, _, _, _)
insert_many_eager(t, rows, mfields, do_commit, commitOk, s) ==
    IF rows = <<>>
    THEN Out(s, "", None)
    ELSE LET l == insert_many_loop(t, <<Head(rows)>>, mfields, s)
             c == IF do_commit THEN SessionCommit(l.s, commitOk \/ Len(rows) > 1) ELSE l
         IN  IF l.err # "" THEN l
             ELSE IF c.err # "" THEN c
             ELSE insert_many_eager(t, Tail(rows), mfields, do_commit, commitOk, c.s)

insert_many(t, rows, mfields, do_commit, commitOk, s) ==
    LET l == insert_many_loop(t, rows, mfields, s)
    IN  IF l.err # "" \/ ~do_commit THEN l ELSE SessionCommit(l.s, commitOk)

insert(t, row, mfields, do_commit, commitOk, s) ==
    insert_many(t, <<row>>, mfields, do_commit, commitOk, s)

(***************************************************************************)
(* DB.insert_ignore_many / DB.insert_ignore                                *)
(***************************************************************************)
\* insert_ignore_row with the violation undone by a rollback of the whole
\* transaction instead of the nested scope
insert_ignore_row_rollback(t, rawrow, mfields, s) ==
    LET row == to_dict(rawrow, mfields, TRUE, TRUE)
        pre == RootFlush(s)
        m   == Construct(t, row.d)
    IN  IF row.err # "" THEN Out(s, row.err, FALSE)
        ELSE IF pre.err = "PendingRollbackError" THEN Out(s, pre.err, FALSE)
        ELSE IF pre.err = "IntegrityError" THEN Out(pre.s, "", FALSE)
        ELSE IF m.err # "" THEN Out(pre.s, m.err, FALSE)
        ELSE IF InsertOk(t, m.d, pre.s.work[t.name])
             THEN Out([pre.s EXCEPT !.work[t.name] = @ \cup {m.d}], "", TRUE)
             ELSE Out(SessionRollback(pre.s), "", FALSE)

\* one turn of the loop: res is whether the nested scope closed cleanly,
\* err is an error the except clause does not catch
insert_ignore_row(t, rawrow, mfields, s) ==
    LET row == to_dict(rawrow, mfields, TRUE, TRUE)
        pre == RootFlush(s)
        m   == Construct(t, row.d)
    IN  IF row.err # "" THEN Out(s, row.err, FALSE)
        ELSE IF pre.err = "PendingRollbackError" THEN Out(s, pre.err, FALSE)
        ELSE IF pre.err = "IntegrityError" THEN Out(pre.s, "", FALSE)
        ELSE IF m.err # "" THEN Out(pre.s, m.err, FALSE)
        ELSE IF InsertOk(t, m.d, pre.s.work[t.name])
             THEN Out([pre.s EXCEPT !.work[t.name] = @ \cup {m.d}], "", TRUE)
             ELSE Out(pre.s, "", FALSE)

RECURSIVE insert_ignore_loop(_, _, _, _, _)
insert_ignore_loop(t, rows, mfields, s, is_inserted) ==
    IF rows = <<>>
    THEN Out(s, "", is_inserted)
    ELSE LET r == insert_ignore_row(t, Head(rows), mfields, s)
         IN  IF r.err # ""
             THEN Out(r.s, r.err, is_inserted)
             ELSE insert_ignore_loop(t, Tail(rows), mfields, r.s, is_inserted \/ r.res)

\* insert_ignore_many that reports the outcome of the last row only
insert_ignore_many_last(t, rows, mfields, commitOk, s) ==
    LET l == insert_ignore_loop(t, rows, mfields, s, FALSE)
        c == SessionCommit(l.s, commitOk)
        z == insert_ignore_loop(t, <<rows[Len(rows)]>>, mfields,
                 insert_ignore_loop(t, SubSeq(rows, 1, Len(rows) - 1), mfields, s, FALSE).s,
                 FALSE)
    IN  IF l.err # "" THEN Out(l.s, l.err, None)
        ELSE IF c.err # "" THEN c
        ELSE Out(c.s, "", IF rows = <<>> THEN FALSE ELSE z.res)

insert_ignore_many(t, rows, mfields, commitOk, s) ==
    LET l == insert_ignore_loop(t, rows, mfields, s, FALSE)
        c == SessionCommit(l.s, commitOk)
    IN  IF l.err # "" THEN Out(l.s, l.err, None)
        ELSE IF c.err # "" THEN c
        ELSE Out(c.s, "", l.res)

insert_ignore(t, row, mfields, commitOk, s) ==
    insert_ignore_many(t, <<row>>, mfields, commitOk, s)

(***************************************************************************)
(* DB.insert_ignore_instanses                                              *)
(***************************************************************************)
insert_ignore_instance(m, s) ==
    LET pre == RootFlush(s)
        t   == TableOf(m.tn)
    IN  IF pre.err = "PendingRollbackError" THEN Out(s, pre.err, None)
        ELSE IF pre.err = "IntegrityError" THEN Out(pre.s, "", None)
        ELSE IF InsertOk(t, m.rec, pre.s.work[m.tn])
             THEN Out([pre.s EXCEPT !.work[m.tn] = @ \cup {m.rec}], "", None)
             ELSE Out(pre.s, "", None)

RECURSIVE insert_ignore_instanses_loop(_, _)
insert_ignore_instanses_loop(ms, s) ==
    IF ms = <<>>
    THEN Out(s, "", None)
    ELSE LET r == insert_ignore_instance(Head(ms), s)
         IN  IF r.err # "" THEN r ELSE insert_ignore_instanses_loop(Tail(ms), r.s)

\* insert_ignore_instanses with the commit of line 168 in force
insert_ignore_instanses_commit(instances, s) ==
    LET l == insert_ignore_instanses_loop(
                 IF instances.iterable THEN instances.v ELSE <<instances.v>>, s)
    IN  IF l.err # "" THEN l ELSE SessionCommit(l.s, TRUE)

\* instances is [iterable, v]: a lone instance is wrapped in a tuple
insert_ignore_instanses(instances, s) ==
    insert_ignore_instanses_loop(
        IF instances.iterable THEN instances.v ELSE <<instances.v>>, s)

(***************************************************************************)
(* DB.update                                                               *)
(***************************************************************************)
\* the column a string key of Query.update(values) stands for: an
\* attribute key first, a column name next
Resolves(t, s) ==
    IF s \in ColKeys(t) THEN {s}
    ELSE {c.key : c \in {x \in Range(t.cols) : x.name = s}}

Valid(t, recs) ==
    /\ \A r \in recs : \A k \in PkKeys(t) : r[k] # None
    /\ \A a, b \in recs : a # b => ~Clash(t, a, b)

\* UPDATE t SET values WHERE every cause column equals its value
Matched(recs, cause) == {r \in recs : \A k \in DOMAIN cause : r[k] = cause[k]}

Updated(t, r, values) ==
    [k \in DOMAIN r |->
        IF \E s \in DOMAIN values : k \in Resolves(t, s)
        THEN values[CHOOSE s \in DOMAIN values : k \in Resolves(t, s)]
        ELSE r[k]]

update(t, row, cause_keys, mfields, s) ==
    LET d     == to_dict(row, mfields, TRUE, FALSE)
        p     == check_modelkeys(d.d, cause_keys)
        f     == RootFlush(s)
        recs  == f.s.work[t.name]
        hit   == Matched(recs, p.cause)
        new   == (recs \ hit) \cup {Updated(t, r, p.rest) : r \in hit}
    IN  IF d.err # "" THEN Out(s, d.err, None)
        ELSE IF ~(DOMAIN p.cause \subseteq ColKeys(t)) THEN Out(s, "InvalidRequestError", None)
        ELSE IF f.err # "" THEN f
        ELSE IF \E k \in DOMAIN p.rest : Resolves(t, k) = {} THEN Out(f.s, "CompileError", None)
        ELSE IF DOMAIN p.rest = {} THEN Out(f.s, "StatementError", None)
        ELSE IF Cardinality(new) # Cardinality(recs) \/ ~Valid(t, new)
             THEN Out(f.s, "IntegrityError", None)
        ELSE Out([f.s EXCEPT !.work[t.name] = new], "", Cardinality(hit))

(***************************************************************************)
(* DB.update_with_select / DB.upsert_with_select                           *)
(***************************************************************************)
\* select(t).where(**cause_dict) takes no keyword arguments, and vars() of
\* the fetched result row has no __dict__: both raise TypeError
update_with_select(t, row, cause_dict, mfields, s) ==
    LET d == to_dict(row, mfields, TRUE, FALSE)
        p == check_modelkeys(d.d, cause_dict)
        f == RootFlush(s)
    IN  IF d.err # "" THEN Out(s, d.err, None)
        ELSE IF DOMAIN p.cause # {} THEN Out(s, "TypeError", None)
        ELSE IF f.err # "" THEN f
        ELSE IF f.s.work[t.name] = {} THEN Out(f.s, "", <<FALSE, FALSE>>)
        ELSE IF DOMAIN p.rest # {} THEN Out(f.s, "TypeError", None)
        ELSE Out(f.s, "", <<TRUE, FALSE>>)

AsDictRow(d) == DictRow([k \in {StrKey(x) : x \in DOMAIN d} |-> d[k.key]])

upsert_with_select(t, row, cause_keys, mfields, commitOk, s) ==
    LET d   == to_dict(row, mfields, TRUE, FALSE)
        n   == RootFlush(s)
        u   == update_with_select(t, AsDictRow(d.d), cause_keys, <<>>, n.s)
        ins == ~u.res[1] /\ ~u.res[2]
        c   == insert(t, AsDictRow(d.d), <<>>, TRUE, commitOk, u.s)
        e   == SessionCommit(IF ins THEN c.s ELSE u.s, commitOk)
    IN  IF d.err # "" THEN Out(s, d.err, None)
        ELSE IF n.err # "" THEN n
        ELSE IF u.err # "" THEN u
        ELSE IF ins /\ c.err # "" THEN c
        ELSE IF e.err # "" THEN e
        ELSE Out(e.s, "", <<u.res[2], ins>>)

(***************************************************************************)
(* DB.upsert: INSERT ... ON DUPLICATE KEY UPDATE in a session of its own,  *)
(* which sees the committed records only.                                  *)
(***************************************************************************)
\* stmt.inserted is the column namespace of the table of the statement,
\* whatever the rows supply; update_dict keeps the names that survive the
\* filter on unique / primary-key columns
inserted(t) == {c.name : c \in Range(t.cols)}

\* update_dict with the filter on unique columns only
update_dict_unique_only(t, filter_unque_primary_keys) ==
    IF filter_unque_primary_keys
    THEN {x \in inserted(t) : \E c \in Range(t.cols) : x = c.name /\ c.unique # TRUE}
    ELSE inserted(t)

update_dict(t, filter_unque_primary_keys) ==
    IF filter_unque_primary_keys
    THEN {x \in inserted(t) :
             \E c \in Range(t.cols) : x = c.name /\ c.unique # TRUE /\ c.pk # TRUE}
    ELSE inserted(t)

\* the record a VALUES row stands for: its keys are column names
ValuesRec(t, d) ==
    [k \in ColKeys(t) |->
        LET c == CHOOSE x \in Range(t.cols) : x.key = k
        IN  IF c.name \in DOMAIN d THEN d[c.name] ELSE None]

\* one VALUES row: insert it, or update the clashing record (the one with
\* the same primary key first) in the columns of the update clause
upsert_row(t, recs, rec, upd) ==
    LET hits == {r \in recs : Clash(t, rec, r)}
        pkh  == {r \in hits : \A k \in PkKeys(t) : r[k] = rec[k]}
        r    == IF pkh # {} THEN CHOOSE x \in pkh : TRUE ELSE CHOOSE x \in hits : TRUE
        new  == [k \in DOMAIN r |->
                    IF (CHOOSE c \in Range(t.cols) : c.key = k).name \in upd
                    THEN rec[k] ELSE r[k]]
    IN  IF hits = {}
        THEN IF InsertOk(t, rec, recs) THEN [ok |-> TRUE, recs |-> recs \cup {rec}]
                                       ELSE [ok |-> FALSE, recs |-> recs]
        ELSE IF Valid(t, (recs \ {r}) \cup {new}) /\ new \notin recs \ {r}
             THEN [ok |-> TRUE, recs |-> (recs \ {r}) \cup {new}]
             ELSE [ok |-> FALSE, recs |-> recs]

RECURSIVE upsert_exec(_, _, _, _)
upsert_exec(t, recs, ds, upd) ==
    IF ds = <<>>
    THEN [ok |-> TRUE, recs |-> recs]
    ELSE LET r == upsert_row(t, recs, ValuesRec(t, Head(ds)), upd)
         IN  IF r.ok THEN upsert_exec(t, r.recs, Tail(ds), upd) ELSE r

UOut(d, e, x, o, c) ==
    [db |-> d, err |-> e, executed |-> x, opened |-> o, clause |-> c]

\* upsert without the try / except around the commit
upsert_raise(t, rows, mfields, do_commit, filter_unque_primary_keys, commitOk, d) ==
    LET rows_to_insert == [i \in DOMAIN rows |-> to_dict(rows[i], mfields, TRUE, FALSE)]
        bad == {i \in DOMAIN rows : rows_to_insert[i].err # ""}
        upd == update_dict(t, filter_unque_primary_keys)
        x   == upsert_exec(t, d[t.name], [i \in DOMAIN rows |-> rows_to_insert[i].d], upd)
    IN  IF bad # {}
        THEN UOut(d, rows_to_insert[CHOOSE i \in bad : \A j \in bad : i <= j].err,
                  FALSE, FALSE, {})
        ELSE IF upd = {} THEN UOut(d, "", FALSE, FALSE, upd)
        ELSE IF \E i \in DOMAIN rows : ~(DOMAIN rows_to_insert[i].d \subseteq ColNames(t))
             THEN UOut(d, "CompileError", FALSE, TRUE, upd)
        ELSE IF ~x.ok THEN UOut(d, "IntegrityError", FALSE, TRUE, upd)
        ELSE IF do_commit /\ commitOk
             THEN UOut([d EXCEPT ![t.name] = x.recs], "", TRUE, TRUE, upd)
        ELSE IF do_commit THEN UOut(d, "OperationalError", TRUE, TRUE, upd)
        ELSE UOut(d, "", TRUE, TRUE, upd)

upsert(t, rows, mfields, do_commit, filter_unque_primary_keys, commitOk, d) ==
    LET rows_to_insert == [i \in DOMAIN rows |-> to_dict(rows[i], mfields, TRUE, FALSE)]
        bad == {i \in DOMAIN rows : rows_to_insert[i].err # ""}
        upd == update_dict(t, filter_unque_primary_keys)
        x   == upsert_exec(t, d[t.name], [i \in DOMAIN rows |-> rows_to_insert[i].d], upd)
    IN  IF bad # {}
        THEN UOut(d, rows_to_insert[CHOOSE i \in bad : \A j \in bad : i <= j].err,
                  FALSE, FALSE, {})
        ELSE IF upd = {} THEN UOut(d, "", FALSE, FALSE, upd)
        ELSE IF \E i \in DOMAIN rows : ~(DOMAIN rows_to_insert[i].d \subseteq ColNames(t))
             THEN UOut(d, "CompileError", FALSE, TRUE, upd)
        ELSE IF ~x.ok THEN UOut(d, "IntegrityError", FALSE, TRUE, upd)
        ELSE IF do_commit /\ commitOk
             THEN UOut([d EXCEPT ![t.name] = x.recs], "", TRUE, TRUE, upd)
        ELSE UOut(d, "", TRUE, TRUE, upd)

(***************************************************************************)
(* DB.execute_sqls.  A statement is [text, ok]: ok is whether the storage  *)
(* accepts it.  The result is the statements the connection executed.      *)
(***************************************************************************)
\* execute_loop that goes on after a failing statement
RECURSIVE execute_loop_skip(_, _)
execute_loop_skip(sqls, done) ==
    IF sqls = <<>>
    THEN [err |-> "", executed |-> done]
    ELSE IF Head(sqls).ok
         THEN execute_loop_skip(Tail(sqls), Append(done, Head(sqls).text))
         ELSE [err |-> "StorageError",
               executed |-> execute_loop_skip(Tail(sqls), done).executed]

RECURSIVE execute_loop(_, _)
execute_loop(sqls, done) ==
    IF sqls = <<>>
    THEN [err |-> "", executed |-> done]
    ELSE IF Head(sqls).ok
         THEN execute_loop(Tail(sqls), Append(done, Head(sqls).text))
         ELSE [err |-> "StorageError", executed |-> done]

\* sqls is [kind, v]: v is one statement for a str, a sequence of
\* statements for a list or tuple
execute_sqls(sqls) ==
    IF sqls.kind \notin {"str", "list"}
    THEN [err |-> "AssertionError", executed |-> <<>>]
    ELSE execute_loop(IF sqls.kind = "str" THEN <<sqls.v>> ELSE sqls.v, <<>>)

(***************************************************************************)
(* Inputs.  A caller's row is drawn as an item [id, val, kind] and a shape: *)
(* a dict keyed by attribute keys (keymap), by column names (colmap) or by *)
(* field descriptors (attrmap), or a list paired with mfields (seq).  A    *)
(* full item gives every column its value; the other kinds are rows with   *)
(* an entry the table does not have, or with the first column only.        *)
(***************************************************************************)
Shapes == {"keymap", "colmap", "attrmap", "seq"}

\* the shapes given to the handlers that build records by attribute key,
\* and to those that build a statement by column name
OrmShapes == Shapes \ {"colmap"}

CoreShapes == Shapes \ {"keymap"}

RawVals == {N(1), S(<<SP, 2>>)}

Items ==
    [id : {N(i) : i \in 1..MaxId}, val : RawVals, kind : {"full"}]
        \cup [id : {N(1)}, val : {N(1)}, kind : {"extra", "short"}]

SeqsUpTo(set, n) == UNION {[1..k -> set] : k \in 0..n}

\* the row of item x for table t: x.id goes to the first column of t,
\* x.val to the second; an extra row has one entry too many, a short row
\* has the first column only
MkRow(t, shape, x) ==
    LET K(c) == IF shape = "keymap" THEN StrKey(c.key)
                ELSE IF shape = "colmap" THEN StrKey(c.name)
                ELSE AttrKey(c)
        xk   == IF shape = "attrmap" THEN AttrKey(IF t = T1 THEN G_code ELSE F_val)
                ELSE StrKey("zzz")
        ks   == IF x.kind = "short" THEN {K(t.cols[1])}
                ELSE IF x.kind = "extra" THEN {K(t.cols[1]), K(t.cols[2]), xk}
                ELSE {K(t.cols[1]), K(t.cols[2])}
    IN  IF shape = "seq"
        THEN IF x.kind = "short" THEN ListRow(<<x.id>>)
             ELSE IF x.kind = "extra" THEN ListRow(<<x.id, x.val, x.val>>)
             ELSE ListRow(<<x.id, x.val>>)
        ELSE DictRow([k \in ks |-> IF k = K(t.cols[1]) THEN x.id ELSE x.val])

MkRows(t, shape, xs) == [i \in DOMAIN xs |-> MkRow(t, shape, xs[i])]

MkFields(t, shape) == IF shape = "seq" THEN t.cols ELSE <<>>

Cur == Sess(db, work, pending, active)

NoLast == [op |-> "", args |-> <<>>, pre |-> <<>>, err |-> "", res |-> None]

\* the handler op, called with args, ends in outcome out
Call(op, args, out) ==
    \E o \in {out} :
    /\ Len(o.s.pending) <= MaxPending
    /\ db' = o.s.db
    /\ work' = o.s.work
    /\ pending' = o.s.pending
    /\ active' = o.s.active
    /\ last' = [op |-> op, args |-> args, pre |-> Cur, err |-> o.err, res |-> o.res]

Init ==
    /\ db = [n \in TableNames |-> {}]
    /\ work = db
    /\ pending = <<>>
    /\ active = TRUE
    /\ last = NoLast

\* the caller is single-threaded: it calls when the previous call is over
Idle == last.op = ""

\* the call is over: the caller has taken the result or the error
Return ==
    /\ ~Idle
    /\ last' = NoLast
    /\ UNCHANGED <<db, work, pending, active>>

InsertManyCall ==
    \E shape \in OrmShapes, xs \in SeqsUpTo(Items, MaxRows), do_commit, commitOk \in BOOLEAN :
        /\ ~do_commit => commitOk
        /\ Call("insert_many",
                [shape |-> shape, xs |-> xs, do_commit |-> do_commit, commitOk |-> commitOk],
                insert_many(T1, MkRows(T1, shape, xs), MkFields(T1, shape), do_commit, commitOk, Cur))

InsertMany == Idle /\ InsertManyCall

InsertIgnoreManyCall ==
    \E shape \in OrmShapes, xs \in SeqsUpTo(Items, MaxRows), commitOk \in BOOLEAN :
        Call("insert_ignore_many",
             [shape |-> shape, xs |-> xs, commitOk |-> commitOk],
             insert_ignore_many(T1, MkRows(T1, shape, xs), MkFields(T1, shape), commitOk, Cur))

InsertIgnoreMany == Idle /\ InsertIgnoreManyCall

InsertIgnoreCall ==
    \E shape \in OrmShapes, x \in Items, commitOk \in BOOLEAN :
        Call("insert_ignore",
             [shape |-> shape, xs |-> <<x>>, commitOk |-> commitOk],
             insert_ignore(T1, MkRow(T1, shape, x), MkFields(T1, shape), commitOk, Cur))

InsertIgnore == Idle /\ InsertIgnoreCall

Instances == {Staged(T1, [id |-> clean_value(x.id), val |-> clean_value(x.val)]) :
                 x \in {y \in Items : y.kind = "full"}}

InsertIgnoreInstanses ==
    /\ Idle
    /\ \E ms \in SeqsUpTo(Instances, MaxRows), iterable \in BOOLEAN :
        /\ ~iterable => Len(ms) = 1
        /\ Call("insert_ignore_instanses",
                [ms |-> ms, iterable |-> iterable],
                insert_ignore_instanses(
                    IF iterable THEN [iterable |-> TRUE, v |-> ms]
                                ELSE [iterable |-> FALSE, v |-> ms[1]], Cur))

Rollback ==
    /\ Idle
    /\ Call("rollback", <<>>, Out(SessionRollback(Cur), "", None))

Next ==
    \/ InsertMany
    \/ InsertIgnoreMany
    \/ InsertIgnore
    \/ InsertIgnoreInstanses
    \/ Rollback
    \/ Return

Spec == Init /\ [][Next]_vars

(***************************************************************************)
(* The same session with DB.update and DB.upsert_with_select; records get  *)
(* in by DB.insert.                                                        *)
(***************************************************************************)
Causes == {<<>>, <<F_id>>, <<F_val>>, <<F_id, F_val>>}

Insert ==
    /\ Idle
    /\ \E shape \in OrmShapes, x \in Items, do_commit, commitOk \in BOOLEAN :
        /\ ~do_commit => commitOk
        /\ Call("insert",
                [shape |-> shape, xs |-> <<x>>, do_commit |-> do_commit, commitOk |-> commitOk],
                insert(T1, MkRow(T1, shape, x), MkFields(T1, shape), do_commit, commitOk, Cur))

Update ==
    /\ Idle
    /\ \E shape \in Shapes, x \in Items, cause \in Causes :
        Call("update",
             [shape |-> shape, x |-> x, cause |-> cause],
             update(T1, MkRow(T1, shape, x), cause, MkFields(T1, shape), Cur))

UpsertWithSelect ==
    /\ Idle
    /\ \E shape \in Shapes, x \in Items, cause \in Causes, commitOk \in BOOLEAN :
        Call("upsert_with_select",
             [shape |-> shape, x |-> x, cause |-> cause, commitOk |-> commitOk],
             upsert_with_select(T1, MkRow(T1, shape, x), cause, MkFields(T1, shape), commitOk, Cur))

NextUpd ==
    \/ Insert
    \/ Update
    \/ UpsertWithSelect
    \/ Rollback
    \/ Return

SpecUpd == Init /\ [][NextUpd]_vars

(***************************************************************************)
(* Two calls of DB.insert_ignore in a row, the result of the first still   *)
(* in the caller's hands.                                                  *)
(***************************************************************************)
InsertIgnoreAgain ==
    /\ Idle \/ (last.op = "insert_ignore" /\ last.err = "" /\ last.res = TRUE)
    /\ InsertIgnoreCall

NextTwice ==
    \/ InsertIgnoreAgain
    \/ InsertMany
    \/ InsertIgnoreMany
    \/ Rollback
    \/ Return

SpecTwice == Init /\ [][NextTwice]_vars

(***************************************************************************)
(* DB.upsert on either table.  Its session is a fresh one, so the records  *)
(* it commits are what the idle session of DB sees next.                   *)
(***************************************************************************)
Upsert ==
    /\ Idle
    /\ \E t \in Tables, shape \in CoreShapes, xs \in SeqsUpTo(Items, MaxRows),
          do_commit, filter, commitOk \in BOOLEAN :
        /\ xs # <<>>
        /\ ~do_commit => commitOk
        /\ \E o \in {upsert(t, MkRows(t, shape, xs), MkFields(t, shape),
                            do_commit, filter, commitOk, db)} :
            /\ db' = o.db
            /\ work' = o.db
            /\ UNCHANGED <<pending, active>>
            /\ last' = [op |-> "upsert",
                        args |-> [t |-> t, shape |-> shape, xs |-> xs,
                                  do_commit |-> do_commit, filter |-> filter,
                                  commitOk |-> commitOk],
                        pre |-> Cur, err |-> o.err,
                        res |-> [executed |-> o.executed, opened |-> o.opened,
                                 clause |-> o.clause]]

NextUpsert ==
    \/ Upsert
    \/ Return

SpecUpsert == Init /\ [][NextUpsert]_vars

(***************************************************************************)
(* DB.execute_sqls                                                         *)
(***************************************************************************)
Stmts == [text : 1..MaxSqls, ok : BOOLEAN]

SqlCall(sqls) ==
    \E o \in {execute_sqls(sqls)} :
        /\ last' = [op |-> "execute_sqls", args |-> sqls, pre |-> Cur,
                    err |-> o.err, res |-> o.executed]
        /\ UNCHANGED <<db, work, pending, active>>

ExecuteSqls ==
    /\ Idle
    /\ \/ \E q \in Stmts : SqlCall([kind |-> "str", v |-> q])
       \/ \E qs \in SeqsUpTo(Stmts, MaxSqls) : SqlCall([kind |-> "list", v |-> qs])
       \/ SqlCall([kind |-> "other", v |-> <<>>])

NextSql ==
    \/ ExecuteSqls
    \/ Return

SpecSql == Init /\ [][NextSql]_vars

(***************************************************************************)
(* DB.__to_dict on rows of every shape                                     *)
(***************************************************************************)
MaxFields == 2

NormVals == {N(1), S(<<SP>>), S(<<SP, 1, SP>>)}

NormKeys == {AttrKey(F_id), AttrKey(F_val), StrKey("id"), StrKey("zzz")}

NormFields == SeqsUpTo({F_id, F_val, G_code}, MaxFields)

ToDictCall(row) ==
    \E mfields \in NormFields, use_mfield_keys, use_orm_keys \in BOOLEAN :
        \E o \in {to_dict(row, mfields, use_mfield_keys, use_orm_keys)} :
            /\ last' = [op |-> "to_dict",
                        args |-> [row |-> row, mfields |-> mfields,
                                  use_mfield_keys |-> use_mfield_keys,
                                  use_orm_keys |-> use_orm_keys],
                        pre |-> Cur, err |-> o.err, res |-> o.d]
            /\ UNCHANGED <<db, work, pending, active>>

ToDict ==
    /\ Idle
    /\ \/ \E ks \in SUBSET NormKeys : \E d \in [ks -> NormVals] : ToDictCall(DictRow(d))
       \/ \E vs \in SeqsUpTo(NormVals, MaxFields + 1) : ToDictCall(ListRow(vs))
       \/ \E cs \in {<<>>, <<SP>>, <<SP, 1>>} : ToDictCall(StrRow(cs))
       \/ ToDictCall(OtherRow)

NextNorm ==
    \/ ToDict
    \/ Return

SpecNorm == Init /\ [][NextNorm]_vars

(***************************************************************************)
(* Vocabulary of the properties                                            *)
(***************************************************************************)
\* the record of table t1 that the row of item x stands for
RowRec(x) ==
    [id  |-> clean_value(x.id),
     val |-> IF x.kind = "short" THEN None ELSE clean_value(x.val)]

\* the row of item x in this shape cannot become a record of t1
Trips(shape, x) ==
    \/ x.kind = "extra"
    \/ shape = "colmap"
    \/ shape = "seq" /\ x.kind # "full"

PendingRecs(s) == {s.pending[i].rec : i \in DOMAIN s.pending}

\* what the session holds of t1 before the call: flushed and pending
Base(s) == s.work["t1"] \cup PendingRecs(s)

\* the pending records can be flushed
PendingSound(s) == FlushAll(s.work, s.pending).ok

ClashT1(a, b) == a.id = b.id

IgnoreOps == {"insert_ignore_many", "insert_ignore"}

\* C1: insert_ignore_many skips exactly the rows that violate a constraint:
\* after a normal return (the final commit done) everything the caller had
\* staged is persisted, every row that clashes with nothing before it is
\* persisted, a row is left out only when a persisted record clashes with
\* it, and nothing else is persisted; integrity violations never reach the
\* caller, while a row that cannot be built makes the call fail without a
\* commit.
C1_IgnoreSkipsOnlyViolations ==
    last.op \in IgnoreOps =>
        LET xs   == last.args.xs
            base == Base(last.pre)
            R(k) == RowRec(xs[k])
            trip == \E k \in DOMAIN xs : Trips(last.args.shape, xs[k])
        IN  /\ trip => last.err \notin {"", "IntegrityError"} /\ db = last.pre.db
            /\ (~trip /\ last.pre.active /\ PendingSound(last.pre) /\ last.args.commitOk)
                  => last.err = ""
            /\ last.err # "IntegrityError" \/ ~PendingSound(last.pre)
            /\ last.err = "" =>
                  /\ db = work /\ pending = <<>> /\ active
                  /\ base \subseteq db["t1"]
                  /\ \A k \in DOMAIN xs :
                        (\A r \in base \cup {R(j) : j \in 1..(k - 1)} : ~ClashT1(R(k), r))
                            => R(k) \in db["t1"]
                  /\ \A k \in DOMAIN xs :
                        R(k) \notin db["t1"] => \E r \in db["t1"] : ClashT1(R(k), r)
                  /\ db["t1"] \subseteq base \cup {R(k) : k \in DOMAIN xs}
                  /\ \A a, b \in db["t1"] : a # b => ~ClashT1(a, b)

\* a batch whose first row violates a constraint and whose second row is
\* persisted, together with a record staged before the call
C1_Witness ==
    /\ last.op = "insert_ignore_many"
    /\ last.err = ""
    /\ Len(last.args.xs) = 2
    /\ \E r \in Base(last.pre) : ClashT1(RowRec(last.args.xs[1]), r)
    /\ RowRec(last.args.xs[1]) \notin db["t1"]
    /\ RowRec(last.args.xs[2]) \in db["t1"] \ Base(last.pre)
    /\ last.pre.work # last.pre.db

\* C2: insert_ignore_many returns true exactly when a row of the batch was
\* newly inserted, that is when some row clashes with nothing the session
\* held before the call; and a second call with the row of a first call
\* that returned true returns false and leaves one record of that key.
C2_Iff ==
    (last.op \in IgnoreOps /\ last.err = "") =>
        (last.res = TRUE <=>
            \E k \in DOMAIN last.args.xs :
                \A r \in Base(last.pre) : ~ClashT1(RowRec(last.args.xs[k]), r))

C2_Again ==
    (/\ last.op = "insert_ignore" /\ last.err = "" /\ last.res = TRUE
     /\ last'.op = "insert_ignore" /\ last'.err = ""
     /\ RowRec(last'.args.xs[1]) = RowRec(last.args.xs[1]))
        => /\ last'.res = FALSE
           /\ {r \in db'["t1"] : ClashT1(r, RowRec(last.args.xs[1]))}
                 = {RowRec(last.args.xs[1])}

C2_TrueIffInserted == [](C2_Iff) /\ [][C2_Again]_vars

\* a first call that inserted its row, followed by the same call
C2_Witness ==
    /\ last.op = "insert_ignore" /\ last.err = "" /\ last.res = FALSE
    /\ last.pre.work = last.pre.db /\ last.pre.pending = <<>>
    /\ RowRec(last.args.xs[1]) \in last.pre.db["t1"]
    /\ db = last.pre.db

C9_InstancesNeverCommit ==
    last.op = "insert_ignore_instanses" =>
        LET ms   == last.args.ms
            base == Base(last.pre)
            held == Base(Cur)
            M(k) == ms[k].rec
        IN  /\ db = last.pre.db
            /\ SessionRollback(Cur).work = last.pre.db
            /\ (last.pre.active /\ PendingSound(last.pre)) =>
                  /\ last.err = ""
                  /\ active
                  /\ ms # <<>> => pending = <<>>
                  /\ base \subseteq held
                  /\ \A k \in DOMAIN ms :
                        (\A r \in base \cup {M(j) : j \in 1..(k - 1)} : ~ClashT1(M(k), r))
                            => M(k) \in held
                  /\ \A k \in DOMAIN ms :
                        M(k) \notin held => \E r \in held : ClashT1(M(k), r)
                  /\ held \subseteq base \cup {M(k) : k \in DOMAIN ms}
                  /\ \A a, b \in held : a # b => ~ClashT1(a, b)

\* two instances, the first refused, the second staged and not persisted
C9_Witness ==
    /\ last.op = "insert_ignore_instanses" /\ last.err = ""
    /\ Len(last.args.ms) = 2
    /\ last.args.ms[1].rec \notin work["t1"]
    /\ last.args.ms[2].rec \in work["t1"] \ Base(last.pre)
    /\ last.args.ms[2].rec \notin db["t1"]

\* C4: upsert_with_select returns (is_updated, is_inserted): (false, true)
\* and the row inserted when no record matches the cause columns, (true,
\* false) when the matching record differs in a remainder column, (false,
\* false) when it agrees, never (true, true).
C4_UpsertWithSelectResult ==
    (/\ last.op = "upsert_with_select"
     /\ last.args.x.kind = "full" /\ last.args.shape \in {"keymap", "seq"}
     /\ last.args.cause # <<>> /\ last.args.commitOk
     /\ last.pre.active /\ last.pre.pending = <<>>) =>
        LET rec  == RowRec(last.args.x)
            ck   == {last.args.cause[i].key : i \in DOMAIN last.args.cause}
            hits == {r \in last.pre.work["t1"] : \A k \in ck : r[k] = rec[k]}
        IN  /\ last.err = ""
            /\ last.res # <<TRUE, TRUE>>
            /\ hits = {} => last.res = <<FALSE, TRUE>> /\ rec \in db["t1"]
            /\ (hits # {} /\ \A r \in hits : r # rec) => last.res = <<TRUE, FALSE>>
            /\ hits = {rec} => last.res = <<FALSE, FALSE>>

\* C5: update changes the records whose cause columns equal the row's
\* cause values and no other, sets on them the remainder columns of the
\* row, and returns how many records matched, for a dict keyed by strings,
\* a dict keyed by field descriptors and a list paired with fields.
C5_UpdateByCause ==
    (/\ last.op = "update"
     /\ last.args.x.kind = "full"
     /\ last.args.shape \in {"keymap", "attrmap", "seq"}
     /\ last.args.cause # <<F_id, F_val>>
     /\ last.err = "") =>
        LET rec  == RowRec(last.args.x)
            ck   == {last.args.cause[i].key : i \in DOMAIN last.args.cause}
            seen == Base(last.pre)
            hits == {r \in seen : \A k \in ck : r[k] = rec[k]}
        IN  /\ last.res = Cardinality(hits)
            /\ work["t1"] = (seen \ hits) \cup
                  {[k \in DOMAIN r |-> IF k \in ck THEN r[k] ELSE rec[k]] : r \in hits}

\* C6: when the commit of upsert's statement fails, upsert returns normally
\* and the persisted records are those of before the call.
C6_UpsertSwallowsCommitFailure ==
    (/\ last.op = "upsert"
     /\ last.res.executed
     /\ last.args.do_commit /\ ~last.args.commitOk) =>
        /\ last.err = ""
        /\ db = last.pre.db

\* a failed commit of a statement that would have changed the table
C6_Witness ==
    /\ last.op = "upsert" /\ last.res.executed
    /\ last.args.do_commit /\ ~last.args.commitOk
    /\ last.err = ""
    /\ upsert(last.args.t, MkRows(last.args.t, last.args.shape, last.args.xs),
              MkFields(last.args.t, last.args.shape), TRUE, last.args.filter,
              TRUE, last.pre.db).db # last.pre.db

C8_ExecutesUntilFailure ==
    (last.op = "execute_sqls" /\ last.args.kind # "other") =>
        LET qs  == IF last.args.kind = "str" THEN <<last.args.v>> ELSE last.args.v
            bad == {i \in DOMAIN qs : ~qs[i].ok}
            n   == IF bad = {} THEN Len(qs)
                   ELSE (CHOOSE i \in bad : \A j \in bad : i <= j) - 1
        IN  /\ last.res = [i \in 1..n |-> qs[i].text]
            /\ last.err = "" <=> bad = {}

\* three statements, the second failing
C8_Witness ==
    /\ last.op = "execute_sqls" /\ last.args.kind = "list"
    /\ Len(last.args.v) = 3
    /\ last.args.v[1].ok /\ ~last.args.v[2].ok /\ last.args.v[3].ok
    /\ last.err # ""
    /\ last.res = <<last.args.v[1].text>>

\* the names of the descriptors in the mode of the call
FieldNames(mfields, by_key) ==
    {IF by_key THEN mfields[i].key ELSE mfields[i].name : i \in DOMAIN mfields}

\* C10 as stated: with a descriptor list, the keys of the canonical row are
\* among the descriptors' names for a row of any shape, a dict included; a
\* list as long as the descriptor list gets exactly the names; a list of
\* another length, or a str with a descriptor list not of length 1, fails.
C10_KeysWithinFields ==
    (last.op = "to_dict" /\ last.args.mfields # <<>>) =>
        LET row == last.args.row
            mf  == last.args.mfields
        IN  /\ last.err = "" =>
                  DOMAIN last.res \subseteq FieldNames(mf, TRUE) \cup FieldNames(mf, FALSE)
            /\ (row.kind = "list" /\ Len(row.s) = Len(mf)) =>
                  /\ last.err = ""
                  /\ DOMAIN last.res = FieldNames(mf, last.args.use_mfield_keys)
            /\ (row.kind = "list" /\ Len(row.s) # Len(mf)) => last.err = "AssertionError"
            /\ (row.kind = "str" /\ Len(mf) # 1) => last.err = "AssertionError"

\* C10 amended: with a non-empty descriptor list, a list as long as the
\* list and a str with one descriptor get exactly the descriptors' names as
\* keys, a list of another length or a str with another number of
\* descriptors fails; a dict keeps its own keys, descriptor keys replaced
\* by their names, whatever the descriptor list holds.
C10_SequenceKeysFromFields ==
    (last.op = "to_dict" /\ last.args.mfields # <<>>) =>
        LET row == last.args.row
            mf  == last.args.mfields
            own == {IF k.attr /\ ~last.args.use_orm_keys THEN k.name ELSE k.key :
                       k \in DOMAIN row.d}
        IN  /\ (row.kind = "list" /\ Len(row.s) = Len(mf)) =>
                  /\ last.err = ""
                  /\ DOMAIN last.res = FieldNames(mf, last.args.use_mfield_keys)
            /\ (row.kind = "list" /\ Len(row.s) # Len(mf)) => last.err = "AssertionError"
            /\ row.kind = "str" =>
                  IF Len(mf) = 1
                  THEN last.err = "" /\ DOMAIN last.res = FieldNames(mf, last.args.use_mfield_keys)
                  ELSE last.err = "AssertionError"
            /\ (row.kind = "dict" /\ last.err = "") => DOMAIN last.res = own

\* a list of two values under two distinct descriptors
C10_Witness ==
    /\ last.op = "to_dict" /\ last.err = ""
    /\ last.args.row.kind = "list"
    /\ Len(last.args.mfields) = 2 /\ Len(last.args.row.s) = 2
    /\ Cardinality(DOMAIN last.res) = 2

====
